---- MODULE Spec2Model ----
(***************************************************************************)
(* KVCacheBlock / KVCacheBlockBuilder of modules/llm-cache/ds/             *)
(* kv_cache_block.cc: the slot bitmap, Update / Query / Split on builders, *)
(* _Seal into a block of the object store and Make (reconstruction of a    *)
(* builder from a sealed block).                                           *)
(*                                                                         *)
(* A bitmap word (uint64_t) is the set of its set bit positions, a subset  *)
(* of 0..WordBits-1; a set bit means "slot free".  A tensor region is a    *)
(* flat byte array 0..blockSize*tensorNBytes-1 living in `mem`; builders   *)
(* and blocks hold region ids, so that storage shared between a builder    *)
(* and a block is visible as a shared id.                                  *)
(***************************************************************************)
EXTENDS Integers, Sequences, FiniteSets, TLC

\* ---------------------------------------------------------------- bounds
\* sizeof(uint64_t) * 8, the width of one bitmap word
WordBits == 64
\* the layer count every builder of the cache is created with
Layer == 2
\* the tensorNBytes every builder of the cache is created with
TensorNBytes == 2
\* block sizes of the builders of Spec and SpecStore are 1..MaxBlockSize
MaxBlockSize == 2
\* distinct well-formed byte patterns a caller passes to Update
NumPatterns == 2
\* builders that exist at all (the fresh ones and those Make creates)
MaxBuilders == 2
\* objects the store ever holds (sealed blocks and migrated copies)
MaxObjects == 2
\* threads of the caller that can be inside Update at the same time
MaxCallers == 2

\* the content of a byte of a tensor region nobody has written yet
NoByte == 0 - 1

VARIABLES
  builders,   \* builder id -> KVCacheBlockBuilder fields
  mem,        \* region id -> byte array (the tensor regions' storage)
  store,      \* object id -> sealed KVCacheBlock (its ObjectMeta); a sequence
  last,       \* what the last call was and what it returned
  hist,       \* builder id -> the successful Updates since construction
  fresh,      \* builder id -> only successful Updates have touched it so far
  proc,       \* "running"; "crashed": the process has been terminated;
              \* "undefined": an out-of-bounds write has happened and went
              \* unnoticed, what the process does from there on is not followed
  calls       \* caller thread -> its position inside Update (SpecSerial and
              \* SpecConcurrent, where Update runs statement by statement)

vars == <<builders, mem, store, last, hist, fresh, proc, calls>>

\* ---------------------------------------------------------------- helpers
Min(S) == CHOOSE x \in S : \A y \in S : x <= y

Layers == 0 .. (Layer - 1)

\* int16_t(x): the value Split's return statement converts childIndex to
ToInt16(x) == ((x + 32768) % 65536) - 32768

\* ffsll(word): one plus the position of the least significant set bit, 0 if none
ffsll(word) == IF word = {} THEN 0 ELSE Min(word) + 1

\* ACQUIRE_BIT_RESOURCE(word, bit): clears the bit, the slot becomes occupied
ACQUIRE_BIT_RESOURCE(word, bit) == word \ {bit}

\* FREE_BIT_RESOURCE(word, bit): sets the bit, the slot becomes free
FREE_BIT_RESOURCE(word, bit) == word \cup {bit}

\* region ids of builder b
KeyRegion(b, l) == <<"b", b, "key", l>>
ValueRegion(b, l) == <<"b", b, "value", l>>

\* a tensor region of the given shape, as TensorBuilder's constructor leaves it
NewRegion(blockSize, nbytes) == [x \in 0 .. (blockSize * nbytes - 1) |-> NoByte]

\* memcpy(dst + off, src, n): region arr with bytes[1..n] written at off
MemcpyInto(arr, off, bytes, n) ==
  [x \in DOMAIN arr |-> IF off <= x /\ x < off + n THEN bytes[x - off + 1] ELSE arr[x]]

\* the n bytes of region arr at offset off
BytesAt(arr, off, n) == [j \in 1 .. n |-> arr[off + j - 1]]

\* the bit of slot index in a bitmap (TRUE: free)
BitSet(bitmap, index) == (index % WordBits) \in bitmap[index \div WordBits]

\* slots of [0, blockSize) whose bit is clear
Occupied(bd) == {i \in 0 .. (bd.blockSize - 1) : ~BitSet(bd.bitmap, i)}

\* KVCacheBlockBuilder(client, tensorNBytes, layer, blockSize)
NewBitmap(blockSize) ==
  [i \in 0 .. ((blockSize + 63) \div 64 - 1) |-> 0 .. (WordBits - 1)]

NewBuilder(b, tensorNBytes, layer, blockSize) ==
  [ blockSize    |-> blockSize,
    bitmapSize   |-> (blockSize + 63) \div 64,
    bitmap       |-> NewBitmap(blockSize),
    tensorNBytes |-> tensorNBytes,
    layer        |-> layer,
    keyStateTensorBuilderList   |-> [l \in 0 .. (layer - 1) |-> KeyRegion(b, l)],
    valueStateTensorBuilderList |-> [l \in 0 .. (layer - 1) |-> ValueRegion(b, l)],
    sealed       |-> FALSE ]

NewBuilderMem(b, tensorNBytes, layer, blockSize) ==
  [r \in {KeyRegion(b, l) : l \in 0 .. (layer - 1)}
         \cup {ValueRegion(b, l) : l \in 0 .. (layer - 1)}
     |-> NewRegion(blockSize, tensorNBytes)]

\* ---------------------------------------------------------------- bitmap scan
RECURSIVE FindEmptySlotFrom(_, _)
FindEmptySlotFrom(bd, i) ==
  IF i >= bd.bitmapSize THEN -1
  ELSE IF bd.bitmap[i] # {} THEN (ffsll(bd.bitmap[i]) - 1) + i * 64
  ELSE FindEmptySlotFrom(bd, i + 1)

FindEmptySlot(bd) == FindEmptySlotFrom(bd, 0)

RECURSIVE IsFullFrom(_, _, _)
IsFullFrom(bd, i, left) ==
  IF i >= bd.bitmapSize THEN TRUE
  ELSE IF bd.bitmap[i] # {} /\ ffsll(bd.bitmap[i]) - 1 < left THEN FALSE
  ELSE IsFullFrom(bd, i + 1, left - WordBits)

\* IsFull with left starting at the number of bits of the whole bitmap
IsFullWholeWords(bd) == IsFullFrom(bd, 0, bd.bitmapSize * WordBits)

IsFull(bd) == IsFullFrom(bd, 0, bd.blockSize)

\* ---------------------------------------------------------------- caller inputs
\* LLMKV{data, length}
LLMKV(bytes) == [data |-> bytes, length |-> Len(bytes)]

PatByte(p, l, kv, j) == (p * 64 + l * 16 + kv * 4 + j) % 256

\* a well-formed kvState: Layer pairs, every span TensorNBytes long
Pattern(p) ==
  [l \in 1 .. Layer |->
     [key   |-> LLMKV([j \in 1 .. TensorNBytes |-> PatByte(p, l - 1, 0, j)]),
      value |-> LLMKV([j \in 1 .. TensorNBytes |-> PatByte(p, l - 1, 1, j)])]]

\* Pattern(p) with the key span of layer l one byte short
ShortKey(p, l) ==
  [Pattern(p) EXCEPT ![l + 1].key = LLMKV(SubSeq(@.data, 1, TensorNBytes - 1))]

\* Pattern(p) with the value span of layer l one byte long
LongValue(p, l) ==
  [Pattern(p) EXCEPT ![l + 1].value = LLMKV(Append(@.data, 0))]

\* Pattern(p) without its last layer
FewLayers(p) == SubSeq(Pattern(p), 1, Layer - 1)

GoodInputs == {Pattern(p) : p \in 1 .. NumPatterns}

BadInputs ==
  {ShortKey(NumPatterns, l) : l \in Layers}
    \cup {LongValue(NumPatterns, Layer - 1), FewLayers(NumPatterns)}

KVInputs == GoodInputs \cup BadInputs

\* ---------------------------------------------------------------- Update
\* FirstBadLayer comparing the key lengths only
FirstBadLayerKeyOnly(bd, kvState) ==
  LET bad == {l \in 0 .. (bd.layer - 1) : kvState[l + 1].key.length # bd.tensorNBytes}
  IN IF bad = {} THEN bd.layer ELSE Min(bad)

\* the first layer whose key or value length is not tensorNBytes, or layer if none
FirstBadLayer(bd, kvState) ==
  LET bad == {l \in 0 .. (bd.layer - 1) :
                ~(kvState[l + 1].key.length = bd.tensorNBytes
                  /\ kvState[l + 1].value.length = bd.tensorNBytes)}
  IN IF bad = {} THEN bd.layer ELSE Min(bad)

\* UpdateCopy with the value bytes taken from keyState.data
UpdateCopyValueFromKey(m, bd, index, kvState, k) ==
  [r \in DOMAIN m |->
     IF \E l \in 0 .. (k - 1) : r \in {bd.keyStateTensorBuilderList[l],
                                       bd.valueStateTensorBuilderList[l]}
     THEN LET l == CHOOSE l \in 0 .. (k - 1) : r \in {bd.keyStateTensorBuilderList[l],
                                                       bd.valueStateTensorBuilderList[l]}
          IN MemcpyInto(m[r], index * bd.tensorNBytes, kvState[l + 1].key.data,
                        bd.tensorNBytes)
     ELSE m[r]]

\* the two memcpy calls of Update's loop body, for the layers below k
UpdateCopy(m, bd, index, kvState, k) ==
  [r \in DOMAIN m |->
     IF \E l \in 0 .. (k - 1) : r = bd.keyStateTensorBuilderList[l]
     THEN LET l == CHOOSE l \in 0 .. (k - 1) : r = bd.keyStateTensorBuilderList[l]
          IN MemcpyInto(m[r], index * bd.tensorNBytes, kvState[l + 1].key.data,
                        bd.tensorNBytes)
     ELSE IF \E l \in 0 .. (k - 1) : r = bd.valueStateTensorBuilderList[l]
     THEN LET l == CHOOSE l \in 0 .. (k - 1) : r = bd.valueStateTensorBuilderList[l]
          IN MemcpyInto(m[r], index * bd.tensorNBytes, kvState[l + 1].value.data,
                        bd.tensorNBytes)
     ELSE m[r]]

\* C++ integer division and remainder (truncation toward zero)
CDiv(a, b) == IF a >= 0 THEN a \div b ELSE -((-a) \div b)
CMod(a, b) == a - b * CDiv(a, b)

\* ACQUIRE_BIT_RESOURCE(this->bitmap[index / 64], index % 64)
AcquireSlot(bitmap, index) ==
  [bitmap EXCEPT ![CDiv(index, 64)] = ACQUIRE_BIT_RESOURCE(@, CMod(index, 64))]

\* FREE_BIT_RESOURCE(this->bitmap[index / 64], index % 64)
FreeSlot(bitmap, index) ==
  [bitmap EXCEPT ![CDiv(index, 64)] = FREE_BIT_RESOURCE(@, CMod(index, 64))]

\* the value of `last`: op, the builder called, the other builder (Split's
\* child, Make's new builder), the index or object id argument, the status
\* returned, why it failed, the slot FindEmptySlot chose (Make: the object
\* DelData was issued for, 0 if none), the value handed back (data->offset,
\* Split's int16_t, the object's id, Query: the caller's buffer after the
\* call; NoResult when nothing was handed back), how many successful Updates
\* the builder had seen before the call (-1 if it was not fresh), and a fact
\* about the state the call started in: Update, some supplied span has a
\* wrong length; Split, the parent's slot was occupied; Make, the call
\* directly follows the Seal that returned its argument; Query, the caller's
\* buffer before the call
NoResult == 0 - 2

Called(op, b, other, arg, status, cause, slot, ret, run, pre) ==
  [op |-> op, b |-> b, other |-> other, arg |-> arg, status |-> status,
   cause |-> cause, slot |-> slot, ret |-> ret, run |-> run, pre |-> pre]

\* some key or value span of kvState has a length other than tensorNBytes
WrongLength(bd, kvState) ==
  \E l \in 1 .. Len(kvState) :
    kvState[l].key.length # bd.tensorNBytes \/ kvState[l].value.length # bd.tensorNBytes

\* hist and fresh after a call that is no successful Update on builder b
Touched(f, b) == [f EXCEPT ![b] = FALSE]
Forgotten(h, b) == [h EXCEPT ![b] = <<>>]

RunOf(b) == IF fresh[b] THEN Len(hist[b]) ELSE -1

\* UpdateCause without the index < blockSize half of the first check
UpdateCauseNoUpperBound(bd, kvState) ==
  LET index == FindEmptySlot(bd)
  IN IF ~(index >= 0) THEN "slot"
     ELSE IF Len(kvState) # bd.layer THEN "layers"
     ELSE IF FirstBadLayer(bd, kvState) < bd.layer THEN "size"
     ELSE "none"

\* which RETURN_ON_ASSERT of Update fires: "slot" (line 220), "layers" (line
\* 222), "size" (line 228, in some layer of the loop), or "none"
UpdateCause(bd, kvState) ==
  LET index == FindEmptySlot(bd)
  IN IF ~(index >= 0 /\ index < bd.blockSize) THEN "slot"
     ELSE IF Len(kvState) # bd.layer THEN "layers"
     ELSE IF FirstBadLayer(bd, kvState) < bd.layer THEN "size"
     ELSE "none"

Update(b, kvState) ==
  /\ proc = "running"
  /\ b \in DOMAIN builders
  /\ LET bd == builders[b]
         index == FindEmptySlot(bd)
         cause == UpdateCause(bd, kvState)
         k == IF cause \in {"slot", "layers"} THEN 0 ELSE FirstBadLayer(bd, kvState)
     IN /\ mem' = UpdateCopy(mem, bd, index, kvState, k)
        /\ builders' = IF cause = "none"
                       THEN [builders EXCEPT ![b].bitmap = AcquireSlot(@, index)]
                       ELSE builders
        /\ last' = Called("Update", b, 0, 0,
                          IF cause = "none" THEN "OK" ELSE "Error", cause, index,
                          IF cause = "none" THEN index ELSE NoResult, RunOf(b),
                          WrongLength(bd, kvState))
        /\ hist' = IF cause = "none" /\ fresh[b]
                   THEN [hist EXCEPT ![b] = Append(@, [offset |-> index, kv |-> kvState])]
                   ELSE Forgotten(hist, b)
        /\ fresh' = IF cause = "none" THEN fresh ELSE Touched(fresh, b)
  /\ UNCHANGED <<store, proc, calls>>

\* ---------------------------------------------------------------- Update, by statement
\* A caller thread inside Update: pc is its position in UpdateSteps (0: not in
\* a call), b and kvState are the call's builder and argument, index is the
\* local variable of line 219, offset is the caller's data->offset, done is
\* what the thread's last completed call returned.
NoCall == [status |-> "none", b |-> 0, offset |-> NoResult, kvState |-> <<>>]

IdleCall ==
  [pc |-> 0, b |-> 0, kvState |-> <<>>, index |-> NoResult, offset |-> NoResult,
   done |-> NoCall]

\* UpdateSteps with the bit acquired right after the slot has been found
UpdateStepsAcquireFirst(bd) ==
  <<"find", "acquire">> \o [l \in 1 .. bd.layer |-> "copy"]

\* the statements of Update in program order: "find" is lines 219-223, each
\* "copy" is one iteration of the loop of lines 225-237, "acquire" is lines
\* 238-240; the call returns OK after the last one
UpdateSteps(bd) ==
  <<"find">> \o [l \in 1 .. bd.layer |-> "copy"] \o <<"acquire">>

\* the two memcpy calls of one iteration of Update's loop
UpdateCopyLayer(m, bd, index, kvState, currentLayer) ==
  [m EXCEPT
     ![bd.keyStateTensorBuilderList[currentLayer]] =
        MemcpyInto(@, index * bd.tensorNBytes, kvState[currentLayer + 1].key.data,
                   bd.tensorNBytes),
     ![bd.valueStateTensorBuilderList[currentLayer]] =
        MemcpyInto(@, index * bd.tensorNBytes, kvState[currentLayer + 1].value.data,
                   bd.tensorNBytes)]

\* thread t calls Update(kvState, data) on builder b
UpdateBegin(t, b, kvState) ==
  /\ proc = "running"
  /\ b \in DOMAIN builders
  /\ calls[t].pc = 0
  /\ calls' = [calls EXCEPT ![t] = [@ EXCEPT !.pc = 1, !.b = b, !.kvState = kvState]]
  /\ UNCHANGED <<builders, mem, store, last, hist, fresh, proc>>

\* the thread's record once its call has returned
Returned(c, status) ==
  [IdleCall EXCEPT !.done = [status |-> status, b |-> c.b, offset |-> c.offset,
                             kvState |-> c.kvState]]

\* thread t executes the statement of Update it is at
UpdateStep(t) ==
  /\ proc = "running"
  /\ calls[t].pc > 0
  /\ LET c == calls[t]
         bd == builders[c.b]
         steps == UpdateSteps(bd)
         step == steps[c.pc]
         currentLayer == Cardinality({i \in 1 .. (c.pc - 1) : steps[i] = "copy"})
         found == FindEmptySlot(bd)
         cause == CASE step = "find" /\ ~(found >= 0 /\ found < bd.blockSize) -> "slot"
                    [] step = "find" /\ Len(c.kvState) # bd.layer -> "layers"
                    [] step = "copy"
                         /\ ~(c.kvState[currentLayer + 1].key.length = bd.tensorNBytes
                              /\ c.kvState[currentLayer + 1].value.length = bd.tensorNBytes)
                         -> "size"
                    [] OTHER -> "none"
         after == CASE step = "find" -> [c EXCEPT !.index = found]
                    [] step = "acquire" -> [c EXCEPT !.offset = c.index]
                    [] OTHER -> c
         returns == cause # "none" \/ c.pc = Len(steps)
         status == IF cause = "none" THEN "OK" ELSE "Error"
     IN /\ mem' = IF step = "copy" /\ cause = "none"
                  THEN UpdateCopyLayer(mem, bd, c.index, c.kvState, currentLayer)
                  ELSE mem
        /\ builders' = IF step = "acquire"
                       THEN [builders EXCEPT ![c.b].bitmap = AcquireSlot(@, c.index)]
                       ELSE builders
        /\ calls' = [calls EXCEPT ![t] = IF returns THEN Returned(after, status)
                                         ELSE [after EXCEPT !.pc = c.pc + 1]]
        /\ last' = IF returns
                   THEN Called("Update", c.b, 0, 0, status, cause, after.index,
                               after.offset, -1, WrongLength(bd, c.kvState))
                   ELSE last
        /\ fresh' = Touched(fresh, c.b)
        /\ hist' = Forgotten(hist, c.b)
  /\ UNCHANGED <<store, proc>>

\* ---------------------------------------------------------------- Split
\* SplitCopy reading the parent's regions at the child's offset
SplitCopyChildOffset(m, pd, cd, index, childIndex) ==
  [r \in DOMAIN m |->
     IF \E l \in 0 .. (pd.layer - 1) : r = cd.keyStateTensorBuilderList[l]
     THEN LET l == CHOOSE l \in 0 .. (pd.layer - 1) : r = cd.keyStateTensorBuilderList[l]
          IN MemcpyInto(m[r], childIndex * pd.tensorNBytes,
                        BytesAt(m[pd.keyStateTensorBuilderList[l]],
                                childIndex * pd.tensorNBytes, pd.tensorNBytes),
                        pd.tensorNBytes)
     ELSE IF \E l \in 0 .. (pd.layer - 1) : r = cd.valueStateTensorBuilderList[l]
     THEN LET l == CHOOSE l \in 0 .. (pd.layer - 1) : r = cd.valueStateTensorBuilderList[l]
          IN MemcpyInto(m[r], childIndex * pd.tensorNBytes,
                        BytesAt(m[pd.valueStateTensorBuilderList[l]],
                                childIndex * pd.tensorNBytes, pd.tensorNBytes),
                        pd.tensorNBytes)
     ELSE m[r]]

\* the two memcpy calls of Split's loop body for every layer of the parent:
\* slot index of the parent's regions into slot childIndex of the child's,
\* both offsets computed with the parent's tensorNBytes
SplitCopy(m, pd, cd, index, childIndex) ==
  [r \in DOMAIN m |->
     IF \E l \in 0 .. (pd.layer - 1) : r = cd.keyStateTensorBuilderList[l]
     THEN LET l == CHOOSE l \in 0 .. (pd.layer - 1) : r = cd.keyStateTensorBuilderList[l]
          IN MemcpyInto(m[r], childIndex * pd.tensorNBytes,
                        BytesAt(m[pd.keyStateTensorBuilderList[l]],
                                index * pd.tensorNBytes, pd.tensorNBytes),
                        pd.tensorNBytes)
     ELSE IF \E l \in 0 .. (pd.layer - 1) : r = cd.valueStateTensorBuilderList[l]
     THEN LET l == CHOOSE l \in 0 .. (pd.layer - 1) : r = cd.valueStateTensorBuilderList[l]
          IN MemcpyInto(m[r], childIndex * pd.tensorNBytes,
                        BytesAt(m[pd.valueStateTensorBuilderList[l]],
                                index * pd.tensorNBytes, pd.tensorNBytes),
                        pd.tensorNBytes)
     ELSE m[r]]

\* SplitBitSteps with the parent's bit set before the child's bit is cleared
SplitBitStepsFreeFirst(bs, p, c, index, childIndex) ==
  LET freed == [bs EXCEPT ![p].bitmap = FreeSlot(@, index)]
  IN <<freed, [freed EXCEPT ![c].bitmap = AcquireSlot(@, childIndex)]>>

\* lines 271-272: the child's bit is cleared, then the parent's bit is set;
\* the builders after each of the two statements
SplitBitSteps(bs, p, c, index, childIndex) ==
  LET acquired == [bs EXCEPT ![c].bitmap = AcquireSlot(@, childIndex)]
  IN <<acquired, [acquired EXCEPT ![p].bitmap = FreeSlot(@, index)]>>

\* the builders once both statements have run
SplitBits(bs, p, c, index, childIndex) ==
  LET steps == SplitBitSteps(bs, p, c, index, childIndex)
  IN steps[Len(steps)]

\* Split has no check of childIndex.  With childIndex outside
\* [0, child.blockSize) the memcpy calls write tensorNBytes bytes outside the
\* child's regions, which is undefined: the process is killed ("crash"), or
\* the bytes land in memory that belongs to no region and execution goes on
\* ("stray").  For childIndex = -1 the shift count of ACQUIRE_BIT_RESOURCE is
\* -1; word 0 is then already 0, so whichever bits the shift clears, it stays 0.
SplitOutcomes(cd) ==
  LET childIndex == FindEmptySlot(cd)
  IN IF childIndex >= 0 /\ childIndex < cd.blockSize
     THEN {"defined"} ELSE {"crash", "stray"}

Split(p, c, index) ==
  /\ proc = "running"
  /\ p \in DOMAIN builders
  /\ c \in DOMAIN builders
  /\ index \in 0 .. (builders[p].blockSize - 1)
  /\ LET pd == builders[p]
         cd == builders[c]
         childIndex == FindEmptySlot(cd)
     IN \E outcome \in SplitOutcomes(cd) :
          /\ proc' = CASE outcome = "defined" -> "running"
                        [] outcome = "crash" -> "crashed"
                        [] OTHER -> "undefined"
          /\ mem' = IF outcome = "defined"
                    THEN SplitCopy(mem, pd, cd, index, childIndex)
                    ELSE mem
          /\ builders' = IF outcome = "crash" THEN builders
                         ELSE IF childIndex < 0
                         THEN [builders EXCEPT ![p].bitmap = FreeSlot(@, index)]
                         ELSE SplitBits(builders, p, c, index, childIndex)
          /\ last' = Called("Split", p, c, index,
                            IF outcome = "crash" THEN "Crash" ELSE "OK",
                            IF outcome = "defined" THEN "none" ELSE "slot",
                            childIndex,
                            IF outcome = "crash" THEN NoResult ELSE ToInt16(childIndex),
                            RunOf(p), ~BitSet(pd.bitmap, index))
          /\ fresh' = Touched(Touched(fresh, p), c)
          /\ hist' = Forgotten(Forgotten(hist, p), c)
  /\ UNCHANGED <<store, calls>>

\* ---------------------------------------------------------------- Query
\* an LLMKV handle into a region: data = region + offset, and its length
Handle(region, offset, length) ==
  [data |-> [region |-> region, offset |-> offset], length |-> length]

\* the bytes a handle points at
Deref(m, h) == BytesAt(m[h.data.region], h.data.offset, h.length)

\* Query with index <= blockSize as the upper half of the range check
QueryNoUpperBound(bd, index, n) ==
  IF ~(index >= 0 /\ index <= bd.blockSize) THEN [status |-> "Error", kvState |-> <<>>]
  ELSE IF n # bd.layer THEN [status |-> "Error", kvState |-> <<>>]
  ELSE [status |-> "OK",
        kvState |->
          [l \in 1 .. bd.layer |->
             [key   |-> Handle(bd.keyStateTensorBuilderList[l - 1],
                               index * bd.tensorNBytes, bd.tensorNBytes),
              value |-> Handle(bd.valueStateTensorBuilderList[l - 1],
                               index * bd.tensorNBytes, bd.tensorNBytes)]]]

\* Query(index, kvState) with a kvState of n entries: the status and the
\* handles written into kvState (none on an error)
Query(bd, index, n) ==
  IF ~(index >= 0 /\ index < bd.blockSize) THEN [status |-> "Error", kvState |-> <<>>]
  ELSE IF n # bd.layer THEN [status |-> "Error", kvState |-> <<>>]
  ELSE [status |-> "OK",
        kvState |->
          [l \in 1 .. bd.layer |->
             [key   |-> Handle(bd.keyStateTensorBuilderList[l - 1],
                               index * bd.tensorNBytes, bd.tensorNBytes),
              value |-> Handle(bd.valueStateTensorBuilderList[l - 1],
                               index * bd.tensorNBytes, bd.tensorNBytes)]]]

\* what a caller's buffer entry holds before any Query has filled it in
NullHandle == [data |-> [region |-> <<"nullptr", 0, "nullptr", 0>>, offset |-> 0], length |-> 0]

NullBuffer(n) == [l \in 1 .. n |-> [key |-> NullHandle, value |-> NullHandle]]

\* a buffer an earlier Query of slot 0 of builder 1 has filled in
StaleBuffer ==
  [l \in 1 .. Layer |-> [key   |-> Handle(KeyRegion(1, l - 1), 0, TensorNBytes),
                         value |-> Handle(ValueRegion(1, l - 1), 0, TensorNBytes)]]

\* the buffers and slot indices callers pass to Query
QueryBuffers == {NullBuffer(n) : n \in (Layer - 1) .. (Layer + 1)} \cup {StaleBuffer}

QueryIndices == (0 - 1) .. MaxBlockSize

\* Query(index, kvState) on builder b, kvState being the caller's buffer: an
\* error leaves the buffer as it is, otherwise every entry is overwritten
QueryCall(b, index, kvState) ==
  /\ proc = "running"
  /\ b \in DOMAIN builders
  /\ LET q == Query(builders[b], index, Len(kvState))
     IN last' = Called("Query", b, 0, index, q.status,
                       IF q.status = "OK" THEN "none" ELSE "assert", 0,
                       IF q.status = "OK" THEN q.kvState ELSE kvState,
                       RunOf(b), kvState)
  /\ UNCHANGED <<builders, mem, store, hist, fresh, proc, calls>>

\* ---------------------------------------------------------------- _Seal
\* KVTensorBuilder::Seal: the region becomes an immutable tensor object of the
\* store; ownership of the storage moves to the store, the bytes are not copied
SealTensor(region) == region

\* the ObjectMeta _Seal fills in
SealMeta(bd) ==
  [ typeName     |-> "vineyard::KVCacheBlock",
    keyMembers   |-> [l \in 0 .. (bd.layer - 1) |->
                        SealTensor(bd.keyStateTensorBuilderList[l])],
    valueMembers |-> [l \in 0 .. (bd.layer - 1) |->
                        SealTensor(bd.valueStateTensorBuilderList[l])],
    bitmap_size  |-> bd.bitmapSize,
    bitmap       |-> [i \in 0 .. (bd.bitmapSize - 1) |-> bd.bitmap[i]],
    block_size   |-> bd.blockSize,
    tensorNBytes |-> bd.tensorNBytes,
    layer        |-> bd.layer ]

\* an object of the store: its id, whether _Seal created it ("sealed") or a
\* migrating fetch ("migrated"), whether it still exists, its metadata
StoreObject(id, kind, meta) == [id |-> id, kind |-> kind, alive |-> TRUE, meta |-> meta]

\* client.CreateMetaData succeeds (created) or fails; VINEYARD_CHECK_OK on a
\* failure terminates the process
Seal(b, created) ==
  /\ proc = "running"
  /\ b \in DOMAIN builders
  /\ Len(store) < MaxObjects
  /\ LET id == Len(store) + 1
     IN /\ store' = IF created THEN Append(store, StoreObject(id, "sealed", SealMeta(builders[b])))
                    ELSE store
        /\ builders' = IF created THEN [builders EXCEPT ![b].sealed = TRUE] ELSE builders
        /\ proc' = IF created THEN "running" ELSE "crashed"
        /\ last' = Called("Seal", b, 0, 0, IF created THEN "OK" ELSE "Crash",
                          IF created THEN "none" ELSE "create", 0,
                          IF created THEN id ELSE NoResult, RunOf(b), FALSE)
  /\ fresh' = Touched(fresh, b)
  /\ hist' = Forgotten(hist, b)
  /\ UNCHANGED <<mem, calls>>

\* ---------------------------------------------------------------- Construct
\* KVCacheBlock::Construct(meta): the block object a fetch hands out
Construct(id, meta) ==
  [ id           |-> id,
    layer        |-> meta.layer,
    keyStateTensorList   |-> [l \in 0 .. (meta.layer - 1) |-> meta.keyMembers[l]],
    valueStateTensorList |-> [l \in 0 .. (meta.layer - 1) |-> meta.valueMembers[l]],
    bitmapSize   |-> meta.bitmap_size,
    bitmap       |-> [i \in 0 .. (meta.bitmap_size - 1) |-> meta.bitmap[i]],
    tensorNBytes |-> meta.tensorNBytes,
    blockSize    |-> meta.block_size ]

\* what a reader of object id observes in store st and memory m: the block's
\* fields and its tensors' bytes
BlockView(st, m, id) ==
  LET block == Construct(id, st[id].meta)
  IN [ block |-> block,
       keys   |-> [l \in 0 .. (block.layer - 1) |-> m[block.keyStateTensorList[l]]],
       values |-> [l \in 0 .. (block.layer - 1) |-> m[block.valueStateTensorList[l]]] ]

\* ---------------------------------------------------------------- Make
\* KVCacheBlockBuilder(client, kvCacheBlock): the fields of the new builder b
FromBlock(b, block) ==
  [ blockSize    |-> block.blockSize,
    bitmapSize   |-> block.bitmapSize,
    bitmap       |-> [i \in 0 .. (block.bitmapSize - 1) |-> block.bitmap[i]],
    tensorNBytes |-> block.tensorNBytes,
    layer        |-> block.layer,
    keyStateTensorBuilderList   |-> [l \in 0 .. (block.layer - 1) |-> KeyRegion(b, l)],
    valueStateTensorBuilderList |-> [l \in 0 .. (block.layer - 1) |-> ValueRegion(b, l)],
    sealed       |-> FALSE ]

\* FromBlockMem copying blockSize bytes of every tensor
FromBlockMemShort(m, b, block) ==
  LET n == block.blockSize
      fresh_ == NewBuilderMem(b, block.tensorNBytes, block.layer, block.blockSize)
  IN [r \in DOMAIN fresh_ |->
        LET l == r[4]
            src == IF r[3] = "key" THEN block.keyStateTensorList[l]
                   ELSE block.valueStateTensorList[l]
        IN MemcpyInto(fresh_[r], 0, BytesAt(m[src], 0, n), n)]

\* the copy loop of that constructor: blockSize * tensorNBytes bytes of every
\* tensor of the block into the new builder's own regions
FromBlockMem(m, b, block) ==
  LET n == block.blockSize * block.tensorNBytes
      fresh_ == NewBuilderMem(b, block.tensorNBytes, block.layer, block.blockSize)
  IN [r \in DOMAIN fresh_ |->
        LET l == r[4]
            src == IF r[3] = "key" THEN block.keyStateTensorList[l]
                   ELSE block.valueStateTensorList[l]
        IN MemcpyInto(fresh_[r], 0, BytesAt(m[src], 0, n), n)]

\* the copy of object id a migrating fetch creates in the local store: a new
\* object, with tensors of its own holding the same bytes
MigratedRegion(id, kind, l) == <<"o", id, kind, l>>

MigratedMeta(id, meta) ==
  [meta EXCEPT !.keyMembers = [l \in DOMAIN @ |-> MigratedRegion(id, "key", l)],
               !.valueMembers = [l \in DOMAIN @ |-> MigratedRegion(id, "value", l)]]

MigratedMem(m, id, meta) ==
  [r \in {MigratedRegion(id, "key", l) : l \in DOMAIN meta.keyMembers}
         \cup {MigratedRegion(id, "value", l) : l \in DOMAIN meta.valueMembers}
     |-> IF r[3] = "key" THEN m[meta.keyMembers[r[4]]] ELSE m[meta.valueMembers[r[4]]]]

\* how a call of Make can go: treeData is a pointer reference (the
\* RETURN_ON_ASSERT fires), the fetch fails, the fetch hands out the requested
\* object, or it hands out a migrated copy, whose DelData then succeeds or fails
MakeOutcomes == {"isPtr", "fetchFail", "local", "migratedDeleted", "migratedLeaked"}

\* MakeFails without the RETURN_ON_ERROR around the fetch
MakeFailsOnAssertOnly(outcome) == outcome = "isPtr"

\* Make returns an error before it creates a builder: RETURN_ON_ASSERT (line
\* 146) or RETURN_ON_ERROR (line 150)
MakeFails(outcome) == outcome \in {"isPtr", "fetchFail"}

\* what happened during the call: the assert fired, the fetch failed, no
\* DelData was issued ("none"), or the DelData issued for object toDelete
\* succeeded or failed
MakeCause(outcome, toDelete) ==
  CASE outcome = "isPtr" -> "assert"
    [] outcome = "fetchFail" -> "fetch"
    [] toDelete = 0 -> "none"
    [] outcome = "migratedLeaked" -> "delete failed"
    [] OTHER -> "deleted"

\* client.DelData(block.id) succeeded: the storage of the block's tensors is
\* given back to the store and holds none of their bytes any more
Freed(m, block) ==
  [r \in DOMAIN m |->
     IF \E l \in 0 .. (block.layer - 1) :
          r \in {block.keyStateTensorList[l], block.valueStateTensorList[l]}
     THEN [x \in DOMAIN m[r] |-> NoByte]
     ELSE m[r]]

\* MakeMem with the DelData of line 161 issued before the constructor of line 151
MakeMemDeleteFirst(m, b, block, deleted) ==
  LET freed == IF deleted THEN Freed(m, block) ELSE m
  IN FromBlockMem(freed, b, block) @@ freed

\* the memory after lines 151-166: the new builder's regions are filled from
\* the fetched block, then the fetched block is deleted if it is to be
MakeMem(m, b, block, deleted) ==
  LET copied == FromBlockMem(m, b, block) @@ m
  IN IF deleted THEN Freed(copied, block) ELSE copied

Make(blockObjectID, outcome) ==
  /\ proc = "running"
  /\ blockObjectID \in 1 .. Len(store)
  /\ Cardinality(DOMAIN builders) < MaxBuilders
  /\ outcome \in {"local", "migratedDeleted", "migratedLeaked"} => store[blockObjectID].alive
  /\ outcome \in {"migratedDeleted", "migratedLeaked"} => Len(store) < MaxObjects
  /\ LET b == Cardinality(DOMAIN builders) + 1
         copyID == Len(store) + 1
         migrated == outcome \in {"migratedDeleted", "migratedLeaked"}
         fetched == IF migrated
                    THEN StoreObject(copyID, "migrated",
                                     MigratedMeta(copyID, store[blockObjectID].meta))
                    ELSE store[blockObjectID]
         fetchedMem == IF migrated
                       THEN MigratedMem(mem, copyID, store[blockObjectID].meta) @@ mem
                       ELSE mem
         blockObject == Construct(fetched.id, fetched.meta)
         toDelete == IF blockObjectID # blockObject.id THEN blockObject.id ELSE 0
         follows == last.op = "Seal" /\ last.ret = blockObjectID
     IN IF MakeFails(outcome)
        THEN /\ last' = Called("Make", 0, 0, blockObjectID, "Error",
                               MakeCause(outcome, 0), 0, NoResult, 0, follows)
             /\ UNCHANGED <<builders, mem, store, hist, fresh>>
        ELSE /\ builders' = (b :> FromBlock(b, blockObject)) @@ builders
             /\ mem' = MakeMem(fetchedMem, b, blockObject,
                               toDelete # 0 /\ outcome # "migratedLeaked")
             /\ store' = IF migrated
                         THEN Append(store, [fetched EXCEPT
                                               !.alive = (outcome = "migratedLeaked")])
                         ELSE store
             /\ last' = Called("Make", 0, b, blockObjectID, "OK",
                               MakeCause(outcome, toDelete),
                               toDelete, blockObject.id, 0, follows)
             /\ UNCHANGED <<hist, fresh>>
  /\ UNCHANGED <<proc, calls>>

\* ---------------------------------------------------------------- specifications
\* the state after the constructors of the fresh builders have run, sizes[b]
\* being the blockSize of builder b
InitWith(sizes) ==
  /\ builders = [b \in DOMAIN sizes |-> NewBuilder(b, TensorNBytes, Layer, sizes[b])]
  /\ mem = [r \in UNION {DOMAIN NewBuilderMem(b, TensorNBytes, Layer, sizes[b]) :
                           b \in DOMAIN sizes}
              |-> NewRegion(sizes[r[2]], TensorNBytes)]
  /\ store = <<>>
  /\ last = Called("Init", 0, 0, 0, "OK", "none", 0, NoResult, 0, FALSE)
  /\ hist = [b \in 1 .. MaxBuilders |-> <<>>]
  /\ fresh = [b \in 1 .. MaxBuilders |-> TRUE]
  /\ proc = "running"
  /\ calls = [t \in 1 .. MaxCallers |-> IdleCall]

\* the kvState of the token a caller stores next in builder b: its bytes
\* depend on the slot the token will get and on the builder
TokenPattern(b) ==
  Pattern(1 + ((FindEmptySlot(builders[b]) + b) % NumPatterns))

\* Spec: two fresh builders of one block size, any Update and any Split.
Init == \E blockSize \in 1 .. MaxBlockSize : InitWith(<<blockSize, blockSize>>)

Next ==
  \/ \E b \in 1 .. MaxBuilders, kvState \in KVInputs : Update(b, kvState)
  \/ \E p \in 1 .. MaxBuilders, c \in 1 .. MaxBuilders, index \in 0 .. (MaxBlockSize - 1) :
       Split(p, c, index)

Spec == Init /\ [][Next]_vars

\* SpecStore: one fresh builder; tokens are stored and split off, builders are
\* sealed into the store and reconstructed from it.
InitStore == \E blockSize \in 1 .. MaxBlockSize : InitWith(<<blockSize>>)

UpdateToken(b) == b \in DOMAIN builders /\ Update(b, TokenPattern(b))

NextStore ==
  \/ \E b \in 1 .. MaxBuilders : UpdateToken(b)
  \/ \E p \in 1 .. MaxBuilders, c \in 1 .. MaxBuilders, index \in 0 .. (MaxBlockSize - 1) :
       Split(p, c, index)
  \/ \E b \in 1 .. MaxBuilders, created \in BOOLEAN : Seal(b, created)
  \/ \E id \in 1 .. MaxObjects, outcome \in MakeOutcomes : Make(id, outcome)

SpecStore == InitStore /\ [][NextStore]_vars

\* SpecWide: a parent builder whose block size is one less than, equal to or
\* one more than a bitmap word, and a small child; the parent is filled token
\* by token and the tokens at SplitIndices are split off into the child.
WideSizes == {WordBits - 1, WordBits, WordBits + 1}

SplitIndices == {1, 3}

InitWide == \E blockSize \in WideSizes : InitWith(<<blockSize, MaxBlockSize>>)

NextWide ==
  \/ UpdateToken(1)
  \/ \E index \in SplitIndices : Split(1, 2, index)

SpecWide == InitWide /\ [][NextWide]_vars

\* SpecQuery: two fresh builders; tokens are stored and split off, and any
\* slot index is queried with any buffer.
NextQuery ==
  \/ \E b \in 1 .. MaxBuilders : UpdateToken(b)
  \/ \E p \in 1 .. MaxBuilders, c \in 1 .. MaxBuilders, index \in 0 .. (MaxBlockSize - 1) :
       Split(p, c, index)
  \/ \E b \in 1 .. MaxBuilders, index \in QueryIndices, kvState \in QueryBuffers :
       QueryCall(b, index, kvState)

SpecQuery == Init /\ [][NextQuery]_vars

\* SpecSerial: Update runs statement by statement; the caller serializes its
\* calls, so a thread enters Update only while no other thread is inside.
NobodyInside == \A t \in 1 .. MaxCallers : calls[t].pc = 0

NextSerial ==
  \/ \E t \in 1 .. MaxCallers, b \in 1 .. MaxBuilders, kvState \in KVInputs :
       NobodyInside /\ UpdateBegin(t, b, kvState)
  \/ \E t \in 1 .. MaxCallers : UpdateStep(t)

SpecSerial == InitStore /\ [][NextSerial]_vars

\* SpecConcurrent: the threads of the caller call Update on one builder
\* without serializing their calls.
NextConcurrent ==
  \/ \E t \in 1 .. MaxCallers, kvState \in GoodInputs : UpdateBegin(t, 1, kvState)
  \/ \E t \in 1 .. MaxCallers : UpdateStep(t)

SpecConcurrent == InitStore /\ [][NextConcurrent]_vars

\* ---------------------------------------------------------------- claims
\* C1: on a fresh builder, N <= blockSize consecutive successful Update calls
\* report the slot indices 0, 1, ..., N-1 in that order, and a Query on each
\* reported index yields, for every layer, handles of length tensorNBytes
\* whose key and value bytes are those passed to the Update that reported it.
C1_UpdateQueryRoundTrip ==
  \A b \in DOMAIN builders :
    fresh[b] =>
      \A n \in 1 .. Len(hist[b]) :
        LET bd == builders[b]
            q == Query(bd, hist[b][n].offset, bd.layer)
        IN /\ hist[b][n].offset = n - 1
           /\ q.status = "OK"
           /\ \A l \in 1 .. bd.layer :
                /\ q.kvState[l].key.length = bd.tensorNBytes
                /\ q.kvState[l].value.length = bd.tensorNBytes
                /\ Deref(mem, q.kvState[l].key) = hist[b][n].kv[l].key.data
                /\ Deref(mem, q.kvState[l].value) = hist[b][n].kv[l].value.data

\* a fresh builder of more than one bitmap word filled by blockSize Updates
C1_Witness ==
  /\ fresh[1]
  /\ builders[1].blockSize > WordBits
  /\ Len(hist[1]) = builders[1].blockSize

\* C2: after blockSize successful Update calls on a fresh builder the next
\* Update returns an error, changes no bitmap bit and no tensor byte, and
\* exactly blockSize slots of [0, blockSize) stay occupied.
C2_ExhaustedUpdateFails ==
  [][ (last'.op = "Update" /\ last'.run = builders[last'.b].blockSize)
        => /\ last'.status = "Error"
           /\ last'.ret = NoResult
           /\ builders' = builders
           /\ mem' = mem
           /\ Cardinality(Occupied(builders'[last'.b])) = builders[last'.b].blockSize
    ]_vars

\* the Update after blockSize successful ones has returned, on a block whose
\* size is no multiple of the word width: it found the padding bit blockSize
C2_Witness ==
  /\ last.op = "Update"
  /\ last.run = builders[last.b].blockSize
  /\ last.status = "Error"
  /\ last.slot = builders[last.b].blockSize
  /\ builders[last.b].blockSize % WordBits # 0

\* slots of [0, blockSize) whose bit is set
FreeSlots(bd) == {i \in 0 .. (bd.blockSize - 1) : BitSet(bd.bitmap, i)}

\* the key and value bytes of slot index of builder bd in memory m, per layer
SlotBytes(m, bd, index) ==
  [l \in 0 .. (bd.layer - 1) |->
     [key   |-> BytesAt(m[bd.keyStateTensorBuilderList[l]],
                        index * bd.tensorNBytes, bd.tensorNBytes),
      value |-> BytesAt(m[bd.valueStateTensorBuilderList[l]],
                        index * bd.tensorNBytes, bd.tensorNBytes)]]

\* C3: Split(child, i) with parent slot i occupied and a child that has a free
\* slot in [0, child.blockSize) returns a child slot c such that afterwards
\* parent slot i is free, child slot c is occupied, and for every layer child
\* slot c holds the key and value bytes parent slot i held before the call.
C3_SplitMovesSlot ==
  [][ (/\ last'.op = "Split"
       /\ ~BitSet(builders[last'.b].bitmap, last'.arg)
       /\ FreeSlots(builders[last'.other]) # {})
        => /\ last'.status = "OK"
           /\ last'.ret \in 0 .. (builders[last'.other].blockSize - 1)
           /\ BitSet(builders'[last'.b].bitmap, last'.arg)
           /\ ~BitSet(builders'[last'.other].bitmap, last'.ret)
           /\ SlotBytes(mem', builders'[last'.other], last'.ret)
                = SlotBytes(mem, builders[last'.b], last'.arg)
    ]_vars

\* a Split of an occupied parent slot into another builder that already held
\* a token has returned child slot 1
C3_Witness ==
  /\ last.op = "Split"
  /\ last.pre
  /\ last.status = "OK"
  /\ last.cause = "none"
  /\ last.other # last.b
  /\ last.ret = 1

\* C4: with no free slot in [0, child.blockSize) Split reports NO_FREE_SLOT
\* instead of a child slot index and leaves the bitmaps and tensor bytes of
\* parent and child unchanged.
C4_SplitFullChildFails ==
  [][ (last'.op = "Split" /\ FreeSlots(builders[last'.other]) = {})
        => /\ last'.status = "Error"
           /\ last'.ret = NoResult
           /\ builders' = builders
           /\ mem' = mem
    ]_vars

\* C9: an Update in which some key or value span has a length other than
\* tensorNBytes returns an error and allocates no slot: no bitmap bit and so
\* no occupied-slot count changes, and a valid Update that follows is
\* assigned the slot index the failed call would have used.
C9_SizeMismatchAllocatesNothing ==
  [][ /\ (last'.op = "Update" /\ last'.pre)
         => /\ last'.status = "Error"
            /\ last'.ret = NoResult
            /\ \A b \in DOMAIN builders : builders'[b].bitmap = builders[b].bitmap
            /\ Cardinality(Occupied(builders'[last'.b]))
                 = Cardinality(Occupied(builders[last'.b]))
      /\ (/\ last.op = "Update" /\ last.pre /\ last.cause = "size"
          /\ last'.op = "Update" /\ last'.b = last.b /\ last'.status = "OK")
         => last'.ret = last.slot
    ]_vars

\* an Update with a wrong span length has failed on a builder that holds a
\* token already, so that the slot it would have used is not slot 0
C9_Witness ==
  /\ last.op = "Update"
  /\ last.pre
  /\ last.status = "Error"
  /\ last.cause = "size"
  /\ last.slot > 0

\* C5: sealing a builder and then reconstructing a builder from the resulting
\* block identifier yields a builder with the same blockSize, layer,
\* tensorNBytes and bitmapSize, the same value in every bitmap word and, for
\* every layer and every occupied slot, the key and value bytes the sealed
\* builder held at the moment of Seal.
C5_SealReconstructRoundTrip ==
  [][ (/\ last.op = "Seal" /\ last.status = "OK"
       /\ last'.op = "Make" /\ last'.status = "OK" /\ last'.arg = last.ret)
        => LET original == builders[last.b]
               rebuilt == builders'[last'.other]
           IN /\ rebuilt.blockSize = original.blockSize
              /\ rebuilt.layer = original.layer
              /\ rebuilt.tensorNBytes = original.tensorNBytes
              /\ rebuilt.bitmapSize = original.bitmapSize
              /\ DOMAIN rebuilt.bitmap = DOMAIN original.bitmap
              /\ \A i \in DOMAIN original.bitmap : rebuilt.bitmap[i] = original.bitmap[i]
              /\ \A index \in Occupied(original) :
                   SlotBytes(mem', rebuilt, index) = SlotBytes(mem, original, index)
    ]_vars

\* a builder with a token in slot 1 and a hole at slot 0 has been sealed and,
\* directly after, reconstructed
C5_Witness ==
  /\ last.op = "Make"
  /\ last.status = "OK"
  /\ last.pre
  /\ Occupied(builders[last.other]) = {1}

\* C6: once Seal has produced a block, its bitmap words and tensor bytes never
\* change, whatever is called later on a builder reconstructed from it or on
\* the builder that was sealed to produce it.
C6_SealedBlockImmutable ==
  [][ \A id \in 1 .. Len(store) :
        store[id].kind = "sealed" => BlockView(store', mem', id) = BlockView(store, mem, id)
    ]_vars

\* C7: FindEmptySlot returns the lowest index of [0, blockSize) whose bit is
\* set, never an index >= blockSize, and "none" (-1) exactly when every bit of
\* [0, blockSize) is clear.
C7_FindEmptySlotLowestFree ==
  \A b \in DOMAIN builders :
    LET bd == builders[b]
        found == FindEmptySlot(bd)
    IN /\ FreeSlots(bd) # {} => found = Min(FreeSlots(bd))
       /\ found < bd.blockSize
       /\ (found = -1) <=> (FreeSlots(bd) = {})

\* C8: IsFull returns true exactly when FindEmptySlot returns "none" (-1).
C8_IsFullIffNoEmptySlot ==
  \A b \in DOMAIN builders :
    IsFull(builders[b]) <=> (FindEmptySlot(builders[b]) = -1)

\* C10: after Seal has completed on a builder, every later Update on it and
\* every later Split with it as parent or as child fails with an error and
\* leaves the builders' bitmaps and tensor bytes and the sealed block unchanged.
C10_SealedBuilderRejectsMutation ==
  [][ (/\ last'.op \in {"Update", "Split"}
       /\ \/ builders[last'.b].sealed
          \/ (last'.op = "Split" /\ builders[last'.other].sealed))
        => /\ last'.status = "Error"
           /\ builders' = builders
           /\ mem' = mem
           /\ store' = store
    ]_vars

\* C11: a Seal on a builder that is sealed already is rejected: it returns an
\* error, commits no second metadata object to the store and hands back no
\* second block identifier.
C11_SealAtMostOnce ==
  [][ (last'.op = "Seal" /\ builders[last'.b].sealed)
        => /\ last'.status = "Error"
           /\ last'.ret = NoResult
           /\ store' = store
    ]_vars

\* C12: IsFull returns true exactly when no bit at a position of
\* [0, blockSize) is set, whatever the padding bits at positions >= blockSize
\* of the last word are and whichever word holds a set bit below blockSize.
C12_IsFullIffNoFreeSlot ==
  \A b \in DOMAIN builders :
    IsFull(builders[b]) <=> (FreeSlots(builders[b]) = {})

\* a block whose size is no multiple of the word width is full while padding
\* bits of its last word are still set
C12_Witness ==
  \E b \in DOMAIN builders :
    LET bd == builders[b]
    IN /\ bd.blockSize % WordBits # 0
       /\ bd.blockSize > MaxBlockSize
       /\ FreeSlots(bd) = {}
       /\ bd.bitmap[bd.bitmapSize - 1] # {}
       /\ IsFull(bd)

\* C13: an Update that fails because of the number of layers supplied or
\* because of a key or value length other than tensorNBytes in some layer
\* leaves every bitmap bit and every tensor byte as it was and writes no
\* offset for the caller.
C13_FailedUpdateChangesNothing ==
  [][ (last'.op = "Update" /\ (last'.pre \/ last'.cause = "layers"))
        => /\ last'.status = "Error"
           /\ last'.ret = NoResult
           /\ builders' = builders
           /\ mem' = mem
    ]_vars

\* C16: a failure of the store's metadata creation during Seal makes Seal
\* return an error to its caller: the process keeps running, no block
\* identifier is handed back and the builder is not marked sealed.
C16_SealCreateFailureIsAnError ==
  [][ (last'.op = "Seal" /\ last'.cause = "create")
        => /\ last'.status = "Error"
           /\ proc' = "running"
           /\ last'.ret = NoResult
           /\ builders'[last'.b].sealed = builders[last'.b].sealed
    ]_vars

\* the key and value bytes a kvState carries, per layer
KVBytes(kvState) ==
  [l \in 0 .. (Len(kvState) - 1) |->
     [key |-> kvState[l + 1].key.data, value |-> kvState[l + 1].value.data]]

\* C18: under caller-serialized Update calls the bit of the slot a call has
\* chosen stays set until the call has copied all layers, and every slot
\* whose bit is clear holds, in all layers, the key and value bytes of one
\* single Update.
C18_SlotCommittedLast ==
  /\ \A t \in 1 .. MaxCallers :
       calls[t].pc > 1 => BitSet(builders[calls[t].b].bitmap, calls[t].index)
  /\ \A b \in DOMAIN builders :
       \A index \in Occupied(builders[b]) :
         \E kvState \in GoodInputs :
           SlotBytes(mem, builders[b], index) = KVBytes(kvState)

\* a call is about to clear the bit of slot 1, all layers copied, while slot
\* 0 of the builder holds an earlier token
C18_Witness ==
  \E t \in 1 .. MaxCallers :
    /\ calls[t].pc = Layer + 2
    /\ calls[t].index = 1
    /\ Occupied(builders[calls[t].b]) = {0}
    /\ \E kvState \in GoodInputs :
         /\ kvState # calls[t].kvState
         /\ SlotBytes(mem, builders[calls[t].b], 0) = KVBytes(kvState)

\* C19: two threads calling Update on one builder without serialization are
\* never both assigned the same slot, and the slot a call reported holds that
\* call's bytes.
C19_ConcurrentUpdatesGetDistinctSlots ==
  /\ \A t \in 1 .. MaxCallers, u \in 1 .. MaxCallers :
       (/\ t # u
        /\ calls[t].done.status = "OK" /\ calls[u].done.status = "OK"
        /\ calls[t].done.b = calls[u].done.b)
         => calls[t].done.offset # calls[u].done.offset
  /\ \A t \in 1 .. MaxCallers :
       calls[t].done.status = "OK"
         => SlotBytes(mem, builders[calls[t].done.b], calls[t].done.offset)
              = KVBytes(calls[t].done.kvState)

\* C14: Make issues a DelData exactly when the fetched object's id differs
\* from the requested one; the DelData is for the fetched copy, never for the
\* requested object; it comes after the deep copy, so the new builder holds
\* the requested block's bytes; and Make returns OK with the new builder
\* whether the DelData succeeds or fails.
C14_MakeDeletesMigratedCopyOnly ==
  [][ (last'.op = "Make" /\ last'.cause \in {"none", "deleted", "delete failed"})
        => LET requested == last'.arg
               fetched == last'.ret
               target == last'.slot
               block == Construct(requested, store[requested].meta)
           IN /\ last'.status = "OK"
              /\ last'.other \in DOMAIN builders' \ DOMAIN builders
              /\ (target # 0) <=> (fetched # requested)
              /\ (last'.cause = "none") <=> (target = 0)
              /\ target # 0 => (target = fetched /\ target # requested)
              /\ \A id \in 1 .. Len(store) : store'[id] = store[id]
              /\ target = 0 => store' = store
              /\ last'.cause = "deleted" => ~store'[target].alive
              /\ last'.cause = "delete failed" => store'[target].alive
              /\ \A l \in 0 .. (block.layer - 1) :
                   /\ mem'[builders'[last'.other].keyStateTensorBuilderList[l]]
                        = mem[block.keyStateTensorList[l]]
                   /\ mem'[builders'[last'.other].valueStateTensorBuilderList[l]]
                        = mem[block.valueStateTensorList[l]]
    ]_vars

\* Make has fetched a migrated copy of a block that holds a token, built the
\* new builder from it and deleted the copy
C14_Witness ==
  /\ last.op = "Make"
  /\ last.status = "OK"
  /\ last.cause = "deleted"
  /\ last.slot # last.arg
  /\ ~store[last.slot].alive
  /\ Occupied(builders[last.other]) # {}

\* C15: when the fetch fails, Make returns the error, creates no builder and
\* issues no DelData: builders, tensor bytes and store are as before.
C15_FetchFailureCreatesNothing ==
  [][ (last'.op = "Make" /\ last'.cause = "fetch")
        => /\ last'.status = "Error"
           /\ last'.other = 0
           /\ last'.slot = 0
           /\ builders' = builders
           /\ mem' = mem
           /\ store' = store
    ]_vars

\* a Make whose fetch failed has returned
C15_Witness ==
  /\ last.op = "Make"
  /\ last.cause = "fetch"
  /\ last.status = "Error"
  /\ Cardinality(DOMAIN builders) < MaxBuilders

\* C17: Query changes no bitmap bit and no tensor byte.  With an index outside
\* [0, blockSize) or a buffer whose length is not layer it returns an error
\* and leaves the buffer as it was; otherwise it sets, for every layer, the
\* key and value handles to offset index * tensorNBytes of that layer's region
\* with length tensorNBytes, whether the slot is occupied or not.
C17_QueryReadsOnly ==
  [][ last'.op = "Query"
        => LET bd == builders[last'.b]
               index == last'.arg
           IN /\ builders' = builders
              /\ mem' = mem
              /\ IF index \notin 0 .. (bd.blockSize - 1) \/ Len(last'.pre) # bd.layer
                 THEN last'.status = "Error" /\ last'.ret = last'.pre
                 ELSE /\ last'.status = "OK"
                      /\ Len(last'.ret) = bd.layer
                      /\ \A l \in 0 .. (bd.layer - 1) :
                           /\ last'.ret[l + 1].key
                                = Handle(bd.keyStateTensorBuilderList[l],
                                         index * bd.tensorNBytes, bd.tensorNBytes)
                           /\ last'.ret[l + 1].value
                                = Handle(bd.valueStateTensorBuilderList[l],
                                         index * bd.tensorNBytes, bd.tensorNBytes)
    ]_vars

\* a Query of slot 1, which is free while slot 0 is occupied, has filled in
\* a buffer that held the handles of slot 0
C17_Witness ==
  /\ last.op = "Query"
  /\ last.status = "OK"
  /\ last.arg = 1
  /\ last.pre = StaleBuffer
  /\ last.ret # last.pre
  /\ FreeSlots(builders[last.b]) = {1}

\* C20: a Split of an occupied parent slot i into a distinct child with a free
\* slot changes exactly bit i of the parent's bitmap (to free), exactly bit c
\* of the child's (to occupied) and only the tensor bytes of child slot c; the
\* number of occupied slots over both builders stays the same, and after each
\* of the two bitmap statements the token is occupied in parent or child.
C20_SplitChangesOnlyMovedSlot ==
  [][ (/\ last'.op = "Split"
       /\ last'.b # last'.other
       /\ ~BitSet(builders[last'.b].bitmap, last'.arg)
       /\ FreeSlots(builders[last'.other]) # {})
        => LET p == last'.b
               c == last'.other
               i == last'.arg
               ci == last'.ret
               pd == builders[p]
               cd == builders[c]
               steps == SplitBitSteps(builders, p, c, i, ci)
           IN /\ builders'[p] = [pd EXCEPT !.bitmap[i \div WordBits] = @ \cup {i % WordBits}]
              /\ (ci % WordBits) \in cd.bitmap[ci \div WordBits]
              /\ builders'[c] = [cd EXCEPT !.bitmap[ci \div WordBits] = @ \ {ci % WordBits}]
              /\ DOMAIN mem' = DOMAIN mem
              /\ \A r \in DOMAIN mem :
                   \A x \in DOMAIN mem[r] :
                     mem'[r][x] # mem[r][x]
                       => /\ \E l \in 0 .. (cd.layer - 1) :
                               r \in {cd.keyStateTensorBuilderList[l],
                                      cd.valueStateTensorBuilderList[l]}
                          /\ x \in (ci * cd.tensorNBytes) .. ((ci + 1) * cd.tensorNBytes - 1)
              /\ Cardinality(Occupied(builders'[p])) + Cardinality(Occupied(builders'[c]))
                   = Cardinality(Occupied(pd)) + Cardinality(Occupied(cd))
              /\ builders' = steps[Len(steps)]
              /\ \A k \in 1 .. Len(steps) :
                   ~BitSet(steps[k][p].bitmap, i) \/ ~BitSet(steps[k][c].bitmap, ci)
    ]_vars

\* a token has been split off slot 1 of a parent that keeps another token,
\* into slot 0 of the other builder
C20_Witness ==
  /\ last.op = "Split"
  /\ last.pre
  /\ last.status = "OK"
  /\ last.cause = "none"
  /\ last.other # last.b
  /\ last.arg = 1
  /\ last.ret = 0
  /\ Occupied(builders[last.b]) = {0}

====
